---- MODULE Spec2Model ----
(***************************************************************************)
(* Model of galaxy_function.py (Breathing_Box one-zone chemical evolution).*)
(*                                                                         *)
(* The file is a library of pure arithmetic functions (ten update rules,  *)
(* two closure relations) and the passive container class `simulation`.   *)
(* Numbers are modelled as exact rationals <<num, den>> in lowest terms   *)
(* with den > 0, i.e. the arithmetic of the formulas without the rounding *)
(* of binary64.  The outcome of a call is a record: either a returned     *)
(* value or a raised exception (Python's `/` raises ZeroDivisionError on  *)
(* a zero divisor, for int and float operands alike).                     *)
(***************************************************************************)
EXTENDS Integers, Sequences, FiniteSets, TLC

VARIABLES
    in,      \* rule harness: the arguments handed to the update rules
    pass,    \* rule harness: which timestep argument is in use (1, 2, 3)
    pc,      \* rule harness: index of the next update rule to call
    out,     \* rule harness: out[p][f] = outcome of rule f in pass p
    cin,     \* closure harness: arguments of the last closure call
    cout,    \* closure harness: outcome of the last closure call
    par,     \* driver: model parameters (R, alp, alp_e, mc, tdy, dt, yz, znf)
    sim,     \* driver: the `simulation` container
    nsteps,  \* driver: number of timesteps taken
    hist     \* driver: initial container and running sums (history)

vars == <<in, pass, pc, out, cin, cout, par, sim, nsteps, hist>>

----------------------------------------------------------------------------
(* Bounds of the explored input grid.                                      *)

MaxSfr == 2
MaxT == 2
MaxTdy == 2
MaxSteps == 3

----------------------------------------------------------------------------
(* Exact rational arithmetic: the value domain of the Python numbers.      *)

Abs(n) == IF n < 0 THEN -n ELSE n

RECURSIVE Gcd(_, _)
Gcd(a, b) == IF b = 0 THEN a ELSE Gcd(b, a % b)

Norm(n, d) ==
    LET g == Gcd(Abs(n), Abs(d))
        s == IF d < 0 THEN -1 ELSE 1
    IN  <<(s * n) \div g, (s * d) \div g>>

Frac(n, d) == Norm(n, d)
Int2R(n) == <<n, 1>>
Zero == <<0, 1>>
One == <<1, 1>>

(* Sums and products cancel common factors first, so that intermediate   *)
(* integers stay small.                                                    *)
RAdd(a, b) ==
    LET g == Gcd(a[2], b[2])
    IN  Norm(a[1] * (b[2] \div g) + b[1] * (a[2] \div g), (a[2] \div g) * b[2])
RNeg(a) == <<-a[1], a[2]>>
RSub(a, b) == RAdd(a, RNeg(b))
RMul(a, b) ==
    LET g1 == Gcd(Abs(a[1]), b[2])
        g2 == Gcd(Abs(b[1]), a[2])
    IN  Norm((a[1] \div g1) * (b[1] \div g2), (a[2] \div g2) * (b[2] \div g1))
RQuot(a, b) == RMul(a, Norm(b[2], b[1]))
RLe(a, b) == a[1] * b[2] <= b[1] * a[2]
RLt(a, b) == a[1] * b[2] < b[1] * a[2]

(* Outcome of a call. *)
Return(v) == [exc |-> "none", val |-> v]
Raise(e) == [exc |-> e, val |-> Zero]
Pending == [exc |-> "pending", val |-> Zero]

(* Python's true division `a / b`. *)
Div(a, b) == IF b = Zero THEN Raise("ZeroDivisionError") ELSE Return(RQuot(a, b))

----------------------------------------------------------------------------
(* The update-rule library.                                                *)

(* Sign slip: the returned gas is added to, not netted against, the locked mass. *)
enrich_gas_SignSlip(sfr, R, t) == RMul(RAdd(sfr, RMul(R, sfr)), t)

enrich_gas(sfr, R, t) == RMul(RAdd(RNeg(sfr), RMul(R, sfr)), t)

(* Sum where the source has a product. *)
remove_egas_SumSlip(sfr, alp, t) == RMul(RNeg(RAdd(alp, sfr)), t)

remove_egas(sfr, alp, t) == RMul(RNeg(RMul(alp, sfr)), t)

gas_infall(bta, t) == RMul(bta, t)

(* The returned fraction is subtracted as a mass. *)
total_stellar_mass_NoSfr(sfr, R, t) == RMul(RSub(sfr, R), t)

(* Operands of the subtraction exchanged. *)
total_stellar_mass_Swapped(sfr, R, t) == RMul(RSub(RMul(R, sfr), sfr), t)

total_stellar_mass(sfr, R, t) == RMul(RSub(sfr, RMul(R, sfr)), t)

enrich_metalgas(zg, sfr, yz, t) ==
    RMul(RAdd(RMul(RNeg(zg), sfr), RMul(yz, sfr)), t)

(* The gas metallicity factor is dropped. *)
remove_metalgas_NoZg(zg, sfr, alp, t) == RMul(RMul(RNeg(alp), sfr), t)

remove_metalgas(zg, sfr, alp, t) ==
    RMul(RMul(RMul(RNeg(alp), zg), sfr), t)

infall_metalgas(bta, znf, t) == RMul(RMul(bta, znf), t)

metal_mass_starphase(zg, sfr, R, t) ==
    RMul(RSub(RMul(zg, sfr), RMul(RMul(zg, R), sfr)), t)

(* Parentheses dropped: 1 - R*sfr*t. *)
total_mass_starpop_NoParen(sfr, R, t) == RSub(One, RMul(RMul(R, sfr), t))

total_mass_starpop(sfr, R, t) == RMul(RMul(RSub(One, R), sfr), t)

(* The timestep factor is dropped. *)
total_mass_metalpop_NoT(zg, sfr, R, t) == RMul(RMul(zg, RSub(One, R)), sfr)

total_mass_metalpop(zg, sfr, R, t) ==
    RMul(RMul(RMul(zg, RSub(One, R)), sfr), t)

(* The closure relations. *)
(* Parentheses dropped: alp_e*mg - mc. *)
star_form_rate_NoParen(alp_e, mg, mc, tdy) == Div(RSub(RMul(alp_e, mg), mc), tdy)

(* A guard that turns the zero divisor into a returned value. *)
star_form_rate_Guarded(alp_e, mg, mc, tdy) ==
    IF tdy = Zero THEN Return(Zero) ELSE Div(RMul(alp_e, RSub(mg, mc)), tdy)

star_form_rate(alp_e, mg, mc, tdy) == Div(RMul(alp_e, RSub(mg, mc)), tdy)

(* The returned fraction itself is used as the infall fraction. *)
infall_rate_ReturnedOnly(R, sfr) == RMul(R, sfr)

infall_rate(R, sfr) == RMul(RSub(One, R), sfr)

----------------------------------------------------------------------------
(* Rule harness: the arguments are fixed in Init; each action calls one    *)
(* update rule with them.  Three passes use the timestep arguments t, t2   *)
(* and t + t2.                                                             *)

Rules == {"enrich_gas", "remove_egas", "gas_infall", "total_stellar_mass",
          "enrich_metalgas", "remove_metalgas", "infall_metalgas",
          "metal_mass_starphase", "total_mass_starpop", "total_mass_metalpop"}
NumRules == Cardinality(Rules)
Passes == 1 .. 3

SfrVals == {Int2R(k) : k \in -1 .. MaxSfr}
RVals == {Zero, Frac(43, 100), One}
AlpVals == {Zero, Frac(1, 10)}
BtaVals == {Zero, Frac(1, 5)}
ZnfVals == {Frac(1, 20), One}
ZgVals == {Frac(1, 100), One}
YzVals == {Zero, Frac(1, 50)}
TVals == {Frac(k, 2) : k \in 0 .. MaxT}

T(p) == IF p = 1 THEN in.t ELSE IF p = 2 THEN in.t2 ELSE RAdd(in.t, in.t2)

NoDriver ==
    /\ par = [R |-> Zero]
    /\ sim = [t |-> Zero]
    /\ nsteps = 0
    /\ hist = [init |-> [t |-> Zero]]

NoClosure ==
    /\ cin = [fn |-> "none", args |-> <<>>]
    /\ cout = Pending

NoRules ==
    /\ in = [t |-> Zero]
    /\ pass = 1
    /\ pc = 1
    /\ out = [p \in Passes |-> [f \in Rules |-> Pending]]

InitRules ==
    /\ in \in [sfr : SfrVals, R : RVals, alp : AlpVals, bta : BtaVals,
               znf : ZnfVals, zg : ZgVals, yz : YzVals, t : TVals, t2 : TVals]
    /\ pass = 1
    /\ pc = 1
    /\ out = [p \in Passes |-> [f \in Rules |-> Pending]]
    /\ NoClosure
    /\ NoDriver

Called(i, f, v) ==
    /\ pc = i
    /\ out' = [out EXCEPT ![pass][f] = Return(v)]
    /\ pc' = i + 1
    /\ UNCHANGED <<in, pass, cin, cout, par, sim, nsteps, hist>>

Call_enrich_gas ==
    Called(1, "enrich_gas", enrich_gas(in.sfr, in.R, T(pass)))

Call_remove_egas ==
    Called(2, "remove_egas", remove_egas(in.sfr, in.alp, T(pass)))

Call_gas_infall ==
    Called(3, "gas_infall", gas_infall(in.bta, T(pass)))

Call_total_stellar_mass ==
    Called(4, "total_stellar_mass", total_stellar_mass(in.sfr, in.R, T(pass)))

Call_enrich_metalgas ==
    Called(5, "enrich_metalgas", enrich_metalgas(in.zg, in.sfr, in.yz, T(pass)))

Call_remove_metalgas ==
    Called(6, "remove_metalgas", remove_metalgas(in.zg, in.sfr, in.alp, T(pass)))

Call_infall_metalgas ==
    Called(7, "infall_metalgas", infall_metalgas(in.bta, in.znf, T(pass)))

Call_metal_mass_starphase ==
    Called(8, "metal_mass_starphase",
           metal_mass_starphase(in.zg, in.sfr, in.R, T(pass)))

Call_total_mass_starpop ==
    Called(9, "total_mass_starpop", total_mass_starpop(in.sfr, in.R, T(pass)))

Call_total_mass_metalpop ==
    Called(10, "total_mass_metalpop",
           total_mass_metalpop(in.zg, in.sfr, in.R, T(pass)))

NextPass ==
    /\ pc = NumRules + 1
    /\ pass < 3
    /\ pass' = pass + 1
    /\ pc' = 1
    /\ UNCHANGED <<in, out, cin, cout, par, sim, nsteps, hist>>

NextRules ==
    \/ Call_enrich_gas
    \/ Call_remove_egas
    \/ Call_gas_infall
    \/ Call_total_stellar_mass
    \/ Call_enrich_metalgas
    \/ Call_remove_metalgas
    \/ Call_infall_metalgas
    \/ Call_metal_mass_starphase
    \/ Call_total_mass_starpop
    \/ Call_total_mass_metalpop
    \/ NextPass

SpecRules == InitRules /\ [][NextRules]_vars

----------------------------------------------------------------------------
(* Properties of the update rules (checked under SpecRules).               *)

Done(p, f) == out[p][f].exc # "pending"
Val(p, f) == out[p][f].val
PassDone(p) == \A f \in Rules : Done(p, f)
SfrRules == Rules \ {"gas_infall", "infall_metalgas"}

(* C1 (as stated): for all sfr, R, t the gas-enrichment increment plus the *)
(* stellar-mass increment equals sfr*t.                                    *)
C1_SumIsSfrT ==
    \A p \in Passes :
        (Done(p, "enrich_gas") /\ Done(p, "total_stellar_mass")) =>
            RAdd(Val(p, "enrich_gas"), Val(p, "total_stellar_mass"))
                = RMul(in.sfr, T(p))

(* C1 (amended): for all sfr, R, t the gas-enrichment increment and the    *)
(* stellar-mass increment are exact negatives: their sum is 0.             *)
C1_SumIsZero ==
    \A p \in Passes :
        (Done(p, "enrich_gas") /\ Done(p, "total_stellar_mass")) =>
            RAdd(Val(p, "enrich_gas"), Val(p, "total_stellar_mass")) = Zero

C1_Witness ==
    /\ Done(1, "enrich_gas") /\ Done(1, "total_stellar_mass")
    /\ in.sfr = Int2R(2) /\ in.R = Frac(43, 100) /\ in.t = One
    /\ Val(1, "enrich_gas") = Frac(-114, 100)
    /\ Val(1, "total_stellar_mass") = Frac(114, 100)

(* C2 (as stated): each of the ten update rules returns exactly 0 whenever *)
(* sfr = 0 and exactly 0 whenever t = 0, whatever the other arguments.     *)
C2_ZeroRateAllTen ==
    \A p \in Passes : \A f \in Rules :
        (Done(p, f) /\ (in.sfr = Zero \/ T(p) = Zero)) => Val(p, f) = Zero

(* C2 (amended): every update rule returns 0 when t = 0; the eight rules   *)
(* that take sfr return 0 when sfr = 0; gas_infall and infall_metalgas     *)
(* take no sfr and return bta*t and bta*znf*t, which are 0 when bta = 0.   *)
C2_ZeroRate ==
    \A p \in Passes : \A f \in Rules :
        Done(p, f) =>
            /\ T(p) = Zero => Val(p, f) = Zero
            /\ (f \in SfrRules /\ in.sfr = Zero) => Val(p, f) = Zero
            /\ (f \notin SfrRules /\ in.bta = Zero) => Val(p, f) = Zero
            /\ f = "gas_infall" => Val(p, f) = RMul(in.bta, T(p))
            /\ f = "infall_metalgas" => Val(p, f) = RMul(RMul(in.bta, in.znf), T(p))

C2_Witness ==
    /\ PassDone(1)
    /\ in.sfr = Zero /\ in.t # Zero /\ in.bta # Zero /\ in.alp # Zero
    /\ Val(1, "gas_infall") # Zero
    /\ Val(1, "infall_metalgas") # Zero
    /\ \A f \in SfrRules : Val(1, f) = Zero

(* C4: every update rule is linear in the timestep:                       *)
(* f(.., t1 + t2) = f(.., t1) + f(.., t2), and f(.., 2t) = 2 f(.., t).     *)
C4_LinearInT ==
    \A f \in Rules :
        Done(3, f) =>
            /\ Val(3, f) = RAdd(Val(1, f), Val(2, f))
            /\ in.t = in.t2 => Val(3, f) = RMul(Int2R(2), Val(1, f))

C4_Witness ==
    /\ PassDone(3)
    /\ in.t = in.t2 /\ in.t # Zero
    /\ \A f \in Rules : Val(1, f) # Zero /\ Val(3, f) # Val(1, f)

(* C5: total_stellar_mass(sfr, R, t) = (1 - R)*sfr*t, the same value as    *)
(* total_mass_starpop(sfr, R, t).                                         *)
C5_StellarMassIsPopulation ==
    \A p \in Passes :
        (Done(p, "total_stellar_mass") /\ Done(p, "total_mass_starpop")) =>
            /\ Val(p, "total_stellar_mass")
                   = RMul(RMul(RSub(One, in.R), in.sfr), T(p))
            /\ Val(p, "total_stellar_mass") = Val(p, "total_mass_starpop")

C5_Witness ==
    /\ Done(1, "total_stellar_mass") /\ Done(1, "total_mass_starpop")
    /\ in.sfr = Int2R(-1) /\ in.R = Frac(43, 100) /\ in.t = Frac(1, 2)
    /\ Val(1, "total_mass_starpop") = Frac(-57, 200)

(* C7: the reference scenario sfr=2, R=0.43, alp=0.1, bta=0.2, znf=0.05,   *)
(* zg=0.01, yz=0.02, t=1 yields the ten reference increments.              *)
Scenario ==
    /\ in.sfr = Int2R(2) /\ in.R = Frac(43, 100) /\ in.alp = Frac(1, 10)
    /\ in.bta = Frac(1, 5) /\ in.znf = Frac(1, 20) /\ in.zg = Frac(1, 100)
    /\ in.yz = Frac(1, 50) /\ in.t = One

Reference ==
    [enrich_gas |-> Frac(-114, 100), remove_egas |-> Frac(-2, 10),
     gas_infall |-> Frac(2, 10), total_stellar_mass |-> Frac(114, 100),
     enrich_metalgas |-> Frac(2, 100), remove_metalgas |-> Frac(-2, 1000),
     infall_metalgas |-> Frac(1, 100), metal_mass_starphase |-> Frac(114, 10000),
     total_mass_starpop |-> Frac(114, 100), total_mass_metalpop |-> Frac(114, 10000)]

C7_ReferenceScenario ==
    Scenario => \A f \in Rules : Done(1, f) => Val(1, f) = Reference[f]

C7_Witness == Scenario /\ PassDone(1)

----------------------------------------------------------------------------
(* Call harness: one call of a closure relation or of an update rule with  *)
(* arguments drawn from the grid; the outcome of the call is recorded.     *)

AlpEVals == {Int2R(k) : k \in -1 .. 2}
MgVals == {Int2R(k) : k \in 0 .. 3}
McVals == {Int2R(k) : k \in 0 .. 2}
TdyVals == {Int2R(k) : k \in -1 .. MaxTdy}

InitClosure ==
    /\ NoClosure
    /\ NoRules
    /\ NoDriver

Call_star_form_rate ==
    \E alp_e \in AlpEVals, mg \in MgVals, mc \in McVals, tdy \in TdyVals :
        /\ cin.fn = "none"
        /\ cin' = [fn |-> "star_form_rate", args |-> <<alp_e, mg, mc, tdy>>]
        /\ cout' = star_form_rate(alp_e, mg, mc, tdy)
        /\ UNCHANGED <<in, pass, pc, out, par, sim, nsteps, hist>>

Call_infall_rate ==
    \E R \in RVals, sfr \in SfrVals :
        /\ cin.fn = "none"
        /\ cin' = [fn |-> "infall_rate", args |-> <<R, sfr>>]
        /\ cout' = Return(infall_rate(R, sfr))
        /\ UNCHANGED <<in, pass, pc, out, par, sim, nsteps, hist>>

Apply(f, a) ==
    CASE f = "enrich_gas" -> enrich_gas(a.sfr, a.R, a.t)
      [] f = "remove_egas" -> remove_egas(a.sfr, a.alp, a.t)
      [] f = "gas_infall" -> gas_infall(a.bta, a.t)
      [] f = "total_stellar_mass" -> total_stellar_mass(a.sfr, a.R, a.t)
      [] f = "enrich_metalgas" -> enrich_metalgas(a.zg, a.sfr, a.yz, a.t)
      [] f = "remove_metalgas" -> remove_metalgas(a.zg, a.sfr, a.alp, a.t)
      [] f = "infall_metalgas" -> infall_metalgas(a.bta, a.znf, a.t)
      [] f = "metal_mass_starphase" -> metal_mass_starphase(a.zg, a.sfr, a.R, a.t)
      [] f = "total_mass_starpop" -> total_mass_starpop(a.sfr, a.R, a.t)
      [] f = "total_mass_metalpop" -> total_mass_metalpop(a.zg, a.sfr, a.R, a.t)

Call_update_rule ==
    \E f \in Rules :
    \E a \in [sfr : SfrVals, R : RVals, alp : AlpVals, bta : BtaVals,
               znf : {Frac(1, 20)}, zg : {Frac(1, 100)}, yz : {Frac(1, 50)},
               t : TVals] :
        /\ cin.fn = "none"
        /\ cin' = [fn |-> f, args |-> a]
        /\ cout' = Return(Apply(f, a))
        /\ UNCHANGED <<in, pass, pc, out, par, sim, nsteps, hist>>

NextClosure ==
    \/ Call_star_form_rate
    \/ Call_infall_rate
    \/ Call_update_rule

SpecClosure == InitClosure /\ [][NextClosure]_vars

----------------------------------------------------------------------------
(* Properties of single calls (checked under SpecClosure).                 *)

IsCall(f) == cin.fn = f /\ cout.exc # "pending"

C6_Threshold ==
    IsCall("star_form_rate") =>
        LET alp_e == cin.args[1]
            mg == cin.args[2]
            mc == cin.args[3]
            tdy == cin.args[4]
        IN  /\ (tdy # Zero /\ mg = mc) => cout = Return(Zero)
            /\ (RLt(Zero, alp_e) /\ RLt(Zero, tdy)) =>
                   /\ cout.exc = "none"
                   /\ RLt(cout.val, Zero) <=> RLt(mg, mc)
                   /\ RLt(Zero, cout.val) <=> RLt(mc, mg)

C6_Witness ==
    /\ IsCall("star_form_rate")
    /\ cin.args = <<Int2R(2), One, Int2R(2), Int2R(2)>>
    /\ cout = Return(Int2R(-1))

----------------------------------------------------------------------------
(* Driver: the `simulation` container is constructed from initial          *)
(* conditions; each timestep computes SFR and beta from the closures,      *)
(* calls the update rules with the container's fields and adds the         *)
(* increments (enrichment, outflow, infall, in that order).                *)

simulation(t, Mgas, Zgas, Mstar, Zstar, Mzgas, Mzstar, MstarSP, ZstarSP, MzstarSP, SFR, beta) ==
    [t |-> t, Mgas |-> Mgas, Zgas |-> Zgas, Mstar |-> Mstar, Zstar |-> Zstar,
     Mzgas |-> Mzgas, Mzstar |-> Mzstar, MstarSP |-> MstarSP,
     ZstarSP |-> ZstarSP, MzstarSP |-> MzstarSP, SFR |-> SFR, beta |-> beta,
     status |-> "running"]

DrvRVals == {Zero, Frac(1, 2), One, Frac(3, 2)}
DrvAlpVals == {Zero, One, Int2R(2)}
DrvAlpEVals == {Zero, One}
DrvTdyVals == {Int2R(k) : k \in 0 .. MaxTdy}
DrvDtVals == {Frac(1, 2), One}
DrvMcVals == {Zero, One}
DrvExcess == {Int2R(-1), Zero, Int2R(2)}

InitDriver ==
    /\ par \in [R : DrvRVals, alp : DrvAlpVals, alp_e : DrvAlpEVals,
                mc : DrvMcVals, tdy : DrvTdyVals, dt : DrvDtVals,
                yz : {Frac(1, 50)}, znf : {Frac(1, 20)}]
    /\ \E x \in DrvExcess, zg \in {Frac(1, 100)}, ms \in {Zero, One} :
          sim = simulation(Zero, RAdd(par.mc, x), zg, ms, zg,
                           RMul(zg, RAdd(par.mc, x)), RMul(zg, ms),
                           Zero, Zero, Zero, Zero, Zero)
    /\ nsteps = 0
    /\ hist = [init |-> sim, sumSP |-> Zero, sumZSP |-> Zero]
    /\ NoClosure
    /\ NoRules

Step ==
    /\ sim.status = "running"
    /\ nsteps < MaxSteps
    /\ LET r == star_form_rate(par.alp_e, sim.Mgas, par.mc, par.tdy)
       IN  IF r.exc # "none"
           THEN /\ sim' = [sim EXCEPT !.status = r.exc]
                /\ UNCHANGED hist
           ELSE LET SFR == r.val
                    beta == infall_rate(par.R, SFR)
                    zg == sim.Zgas
                    dt == par.dt
                    dMgas == RAdd(RAdd(enrich_gas(SFR, par.R, dt),
                                       remove_egas(SFR, par.alp, dt)),
                                  gas_infall(beta, dt))
                    dMzgas == RAdd(RAdd(enrich_metalgas(zg, SFR, par.yz, dt),
                                        remove_metalgas(zg, SFR, par.alp, dt)),
                                   infall_metalgas(beta, par.znf, dt))
                    SP == total_mass_starpop(SFR, par.R, dt)
                    ZSP == total_mass_metalpop(zg, SFR, par.R, dt)
                IN  /\ sim' = [sim EXCEPT
                          !.SFR = SFR,
                          !.beta = beta,
                          !.Mgas = RAdd(@, dMgas),
                          !.Mstar = RAdd(@, total_stellar_mass(SFR, par.R, dt)),
                          !.Mzgas = RAdd(@, dMzgas),
                          !.Mzstar = RAdd(@, metal_mass_starphase(zg, SFR, par.R, dt)),
                          !.MstarSP = SP,
                          !.MzstarSP = ZSP,
                          !.ZstarSP = zg,
                          !.t = RAdd(@, dt)]
                    /\ hist' = [hist EXCEPT !.sumSP = RAdd(@, SP),
                                            !.sumZSP = RAdd(@, ZSP)]
    /\ nsteps' = nsteps + 1
    /\ UNCHANGED <<par, in, pass, pc, out, cin, cout>>

(* The caller recomputes the metallicities from the masses. *)
RecomputeMetallicity ==
    /\ sim.status = "running"
    /\ sim.Mgas # Zero
    /\ sim' = [sim EXCEPT !.Zgas = RQuot(sim.Mzgas, sim.Mgas),
                          !.Zstar = IF sim.Mstar # Zero
                                    THEN RQuot(sim.Mzstar, sim.Mstar)
                                    ELSE @]
    /\ sim' # sim
    /\ UNCHANGED <<par, nsteps, hist, in, pass, pc, out, cin, cout>>

NextDriver ==
    \/ Step
    \/ RecomputeMetallicity

SpecDriver == InitDriver /\ [][NextDriver]_vars

----------------------------------------------------------------------------
(* Properties of the driver loop (checked under SpecDriver).               *)

(* The parameter ranges of C8 and C9. *)
NormalRanges ==
    /\ RLe(Zero, par.R) /\ RLe(par.R, One)
    /\ RLe(Zero, par.alp)
    /\ RLe(Zero, par.alp_e)
    /\ RLt(Zero, par.tdy)
    /\ RLt(Zero, par.dt)
    /\ RLe(par.mc, hist.init.Mgas)

(* One step removes at most the gas above the threshold. *)
StableStep == RLe(RMul(RMul(par.alp, par.alp_e), par.dt), par.tdy)

Stepped == nsteps' = nsteps + 1 /\ sim'.status = "running"

(* C8 (as stated): with 0 <= R <= 1, alp >= 0, alp_e >= 0, tdy > 0, t > 0  *)
(* and initial Mgas >= mc, Mstar after every step is >= Mstar before it.   *)
C8_MstarMonotone ==
    [][(NormalRanges /\ Stepped) => RLe(sim.Mstar, sim'.Mstar)]_vars

(* C8 (amended): under the same ranges and alp*alp_e*t <= tdy, Mstar       *)
(* after every step is >= Mstar before it.                                 *)
C8_MstarMonotoneStable ==
    [][(NormalRanges /\ StableStep /\ Stepped) => RLe(sim.Mstar, sim'.Mstar)]_vars

C8_Witness ==
    /\ NormalRanges /\ StableStep
    /\ nsteps = MaxSteps /\ sim.status = "running"
    /\ par.alp = One /\ par.alp_e = One
    /\ RLt(Zero, sim.SFR)
    /\ RLt(hist.init.Mstar, sim.Mstar)

(* C9: with the closures, the three gas increments of a step sum to        *)
(* -alp*SFR*t; under the ranges above and alp*alp_e*t <= tdy, Mgas >= mc   *)
(* holds after any number of steps and SFR is never negative.              *)
C9_GasAboveThreshold ==
    /\ []((NormalRanges /\ StableStep) =>
            (RLe(par.mc, sim.Mgas) /\ RLe(Zero, sim.SFR)))
    /\ [][Stepped =>
            RSub(sim'.Mgas, sim.Mgas)
                = RNeg(RMul(RMul(par.alp, sim'.SFR), par.dt))]_vars

C9_Witness ==
    /\ NormalRanges /\ StableStep
    /\ nsteps = MaxSteps /\ sim.status = "running"
    /\ par.alp = One /\ par.alp_e = One /\ par.R = Frac(1, 2)
    /\ RLt(sim.Mgas, hist.init.Mgas)
    /\ RLt(par.mc, sim.Mgas)
    /\ RLt(Zero, sim.beta)

(* C10: the cumulative fields are the running sums of the per-step         *)
(* population values: Mstar - Mstar_initial = sum of MstarSP and           *)
(* Mzstar - Mzstar_initial = sum of MzstarSP; per step,                    *)
(* metal_mass_starphase = total_mass_metalpop = zg * total_mass_starpop.   *)
C10_CumulativeIsSumOfPopulations ==
    /\ [](sim.status = "running" =>
            /\ RSub(sim.Mstar, hist.init.Mstar) = hist.sumSP
            /\ RSub(sim.Mzstar, hist.init.Mzstar) = hist.sumZSP)
    /\ [][Stepped =>
            /\ RSub(sim'.Mzstar, sim.Mzstar) = sim'.MzstarSP
            /\ sim'.MzstarSP = RMul(sim.Zgas, sim'.MstarSP)
            /\ RSub(sim'.Mstar, sim.Mstar) = sim'.MstarSP]_vars

C10_Witness ==
    /\ nsteps = MaxSteps /\ sim.status = "running"
    /\ hist.init.Mstar = One
    /\ sim.MstarSP # Zero /\ sim.MzstarSP # Zero
    /\ hist.sumSP # sim.MstarSP /\ hist.sumZSP # sim.MzstarSP
    /\ sim.Zgas # hist.init.Zgas

====
